---------------------------- MODULE Spec2Model ----------------------------
(***************************************************************************)
(* Smart Productivity Tracker (src/app.py): the quick timer and the        *)
(* advanced timer kept in st.session_state, the activities table they and  *)
(* the manual-entry form write to, get_streak_days and the goal-progress   *)
(* computation.                                                            *)
(*                                                                         *)
(* The script is re-executed from top to bottom on every interaction: one  *)
(* step of the model is one such execution ("rerun") at a wall-clock       *)
(* instant, with at most one button reported as pressed.  st.button(...,   *)
(* disabled=d) is taken to report a press only when d is false.            *)
(* datetime.now() is read as one instant per rerun; the clock never runs   *)
(* backwards.  Time is counted in seconds, dates in days.                  *)
(***************************************************************************)
EXTENDS Integers, Sequences, FiniteSets, TLC

VARIABLES
    clock,           \* datetime.now(): seconds since the page was opened
    quick_timer,     \* st.session_state.quick_timer
    advanced_timer,  \* st.session_state.advanced_timer
    activities,      \* rows of the activities table, in insertion order
    goals,           \* goals.daily_goal of the category's row (None: no row)
    event,           \* the latest rerun: the button pressed and what it met
    session,         \* history of the advanced session in progress
    streak,          \* Dashboard: get_streak_days of each category
    progress,        \* View Progress: today_total, daily_progress, goal achieved
    achievements,    \* titles of the rows of the achievements table, in insertion order
    new_achievements \* the list check_achievements returned to the latest rerun

vars == <<clock, quick_timer, advanced_timer, activities, goals, event, session,
          streak, progress, achievements, new_achievements>>

---------------------------------------------------------------------------
(* Bounds of the model *)

\* Latest instant of a rerun, in seconds, of a short and of a long session.
MaxClock == 120
MaxLongClock == 1800
\* Rows the timers may add to the table.
MaxRecords == 1
\* Rows the Add Activity form may add: with a chosen date, with a chosen duration.
MaxManual == 2
MaxTimed == 2
\* Longest run of consecutive days found in the table when the page is opened.
MaxRun == 33
\* Latest instant of a rerun of a quick session, and the rows quick sessions
\* may add to the table.
MaxQuickClock == 600
MaxQuickRecords == 2
\* Rows the Add Activity form may add while the logged hours are followed.
MaxLogged == 3

(* Program constants *)

SecondsPerMinute == 60
MinWorkMinutes == 15
MinQuickMinutes == 5
MinBreakMinutes == 5
WindowDays == 30
MinutesPerHour == 60

None == -1
Today == 0

\* Seconds by which the clock advances between two reruns: short sessions,
\* counted to the half minute, and long ones.
Deltas == {0, 30, 60}
LongDeltas == {0, 420, 900}

\* st.selectbox("Duration", [5, 10, 15, 25, 30, 45, 60]): the choice modelled.
QuickMinutes == {MinQuickMinutes}
\* The choices and the steps of the clock of the quick sessions followed to
\* their end.
QuickChoices == {MinQuickMinutes, 2 * MinQuickMinutes}
QuickDeltas == {0, 90, 300}

\* st.checkbox("Use Pomodoro Technique") and st.slider("Work Duration
\* (minutes)", 15, 60, 25): the settings modelled (0: the box is not ticked).
PomodoroSettings == {0, MinWorkMinutes, MinWorkMinutes + 1}

\* The categories modelled, of the six keys of CATEGORIES.
Categories == {"Study", "Work"}

\* The category of the timers' rows and of the goals row modelled.
GoalCategory == "Study"

\* st.date_input("Date"): the days modelled, relative to today.
ManualDays ==
    {Today + 1, Today, Today - 1, Today - 2, Today - WindowDays, Today - WindowDays - 1}

\* st.number_input("Duration (minutes)", min_value=1): the values modelled.
ManualDurations == {10, 45}

\* st.number_input("Daily (min)", min_value=0): the values modelled.
GoalChoices == {0, 1, 45, 60}

\* st.number_input("Duration (minutes)", min_value=1): the values modelled
\* while the logged hours are followed (5, 10, 40, 50 and 100 hours less or
\* plus a minute).
LoggedDurations == {300, 599, 600, 2400, 3000, 6001}

Max(a, b) == IF a >= b THEN a ELSE b

---------------------------------------------------------------------------
(* Conversions *)

\* int(timedelta.total_seconds() / 60) of the interval from `since` to `now`
\* (the interval is never negative, so int() is the floor).
WholeMinutes(since, now) == (now - since) \div SecondsPerMinute

\* datetime.now().strftime("%Y-%m-%d %H:%M:%S"): the day and the time of day.
Timestamp(day, secs) == [day |-> day, secs |-> secs]

\* One row of the activities table (the columns the model reads).
Activity(category, description, duration, date) ==
    [category |-> category, description |-> description,
     duration |-> duration, date |-> date]

---------------------------------------------------------------------------
(* Sidebar: quick timer *)

NoQuickTimer == [start |-> None, duration |-> 0, active |-> FALSE]

\* if st.button("Start Quick Session"): st.session_state.quick_timer = {...}
StartQuickSession(qt, clicked, now, minutes) ==
    IF clicked THEN [start |-> now, duration |-> minutes, active |-> TRUE]
    ELSE qt

QuickElapsedMinutes(qt, now) == WholeMinutes(qt.start, now)

QuickRemaining(qt, now) == qt.duration - QuickElapsedMinutes(qt, now)

QuickCompletesExpired(qt, clicked, now) ==
    qt.active /\ clicked

\* Whether this rerun reaches the Complete Session body (and then st.rerun()).
QuickCompletes(qt, clicked, now) ==
    qt.active /\ QuickRemaining(qt, now) > 0 /\ clicked

\* "Show active quick timer": the quick timer after the block.
ShowQuickTimer(qt, clicked, now) ==
    IF ~qt.active THEN qt
    ELSE IF QuickRemaining(qt, now) > 0
         THEN IF clicked THEN [qt EXCEPT !.active = FALSE] ELSE qt
         ELSE [qt EXCEPT !.active = FALSE]

\* "Show active quick timer": the activities table after the block.
QuickInsert(acts, qt, clicked, now, category) ==
    IF QuickCompletes(qt, clicked, now)
    THEN Append(acts, Activity(category, "Quick session",
                               QuickElapsedMinutes(qt, now), Timestamp(Today, now)))
    ELSE acts

---------------------------------------------------------------------------
(* Sidebar: check_achievements *)

\* hour_milestones (the description is not modelled).
hour_milestones ==
    <<[milestone |-> 10, title |-> "First Steps"],
      [milestone |-> 50, title |-> "Getting Serious"],
      [milestone |-> 100, title |-> "Century Club"]>>

\* SELECT SUM(duration) FROM activities ... or 0
RECURSIVE SumDuration(_)
SumDuration(acts) ==
    IF acts = <<>> THEN 0 ELSE Head(acts).duration + SumDuration(Tail(acts))

ExistingNever(table, title) == FALSE

\* SELECT id FROM achievements WHERE title=? ... fetchone()
Existing(table, title) == \E i \in 1..Len(table) : table[i] = title

\* The for loop of check_achievements from milestone i on: the achievements
\* table and the returned list (a report is modelled by the title it names).
RECURSIVE AwardLoop(_, _, _, _)
AwardLoop(i, total_hours, table, reported) ==
    IF i > Len(hour_milestones) THEN [table |-> table, achievements |-> reported]
    ELSE IF /\ total_hours >= hour_milestones[i].milestone
            /\ ~Existing(table, hour_milestones[i].title)
         THEN AwardLoop(i + 1, total_hours, Append(table, hour_milestones[i].title),
                        Append(reported, hour_milestones[i].title))
         ELSE AwardLoop(i + 1, total_hours, table, reported)

check_achievements(acts, table) ==
    AwardLoop(1, SumDuration(acts) \div MinutesPerHour, table, <<>>)

---------------------------------------------------------------------------
(* Advanced timer *)

IdleTimer ==
    [active |-> FALSE, start_time |-> None, elapsed |-> 0,
     is_break |-> FALSE, pomodoro_count |-> 0]

Phase(ts) ==
    IF ts.active THEN "Running"
    ELSE IF ts.start_time = None THEN "Idle" ELSE "Paused"

\* total_elapsed of the timer display.
TotalElapsed(ts, now) == ts.elapsed + WholeMinutes(ts.start_time, now)

RemainingCountdown(target_duration, total_elapsed) ==
    Max(0, target_duration - total_elapsed)

\* remaining = max(0, target_duration - (total_elapsed % target_duration))
Remaining(target_duration, total_elapsed) ==
    Max(0, target_duration - (total_elapsed % target_duration))

\* The timer display with its Pomodoro logic: the timer state after it.
TimerDisplay(ts, now, use_pomodoro, work_minutes, break_minutes) ==
    IF ~ts.active \/ ~use_pomodoro THEN ts
    ELSE LET target_duration == IF ts.is_break THEN break_minutes ELSE work_minutes
             remaining == Remaining(target_duration, TotalElapsed(ts, now))
         IN  IF remaining = 0 /\ ~ts.is_break
             THEN [ts EXCEPT !.pomodoro_count = @ + 1]
             ELSE ts

StartButtonAlways(ts, clicked, now) ==
    IF clicked THEN [ts EXCEPT !.active = TRUE, !.start_time = now] ELSE ts

\* if st.button("Start", disabled=timer_state['active']): ...
StartButton(ts, clicked, now) ==
    IF clicked /\ ~ts.active
    THEN [ts EXCEPT !.active = TRUE, !.start_time = now]
    ELSE ts

PauseButtonUnguarded(ts, clicked, now) ==
    IF clicked
    THEN [ts EXCEPT !.elapsed = @ + (IF ts.start_time = None THEN 0
                                     ELSE WholeMinutes(ts.start_time, now)),
                    !.active = FALSE]
    ELSE ts

\* if st.button("Pause", disabled=not timer_state['active']): if active: ...
PauseButton(ts, clicked, now) ==
    IF clicked /\ ts.active /\ ts.active
    THEN [ts EXCEPT !.elapsed = @ + WholeMinutes(ts.start_time, now),
                    !.active = FALSE]
    ELSE ts

\* total_duration of Stop & Save.
TotalDuration(ts, now) ==
    IF ts.active THEN ts.elapsed + WholeMinutes(ts.start_time, now)
    ELSE ts.elapsed

StopSavesAlways(ts, now) == TRUE

\* if total_duration > 0: the row is inserted.
StopSaves(ts, now) == TotalDuration(ts, now) > 0

\* Stop & Save: the activities table after it.
StopInsert(acts, ts, clicked, now, category) ==
    IF clicked /\ StopSaves(ts, now)
    THEN Append(acts, Activity(category, "Timer session",
                               TotalDuration(ts, now), Timestamp(Today, now)))
    ELSE acts

\* Stop & Save: the timer state after it ("Reset timer").
StopButton(ts, clicked) ==
    IF clicked
    THEN [ts EXCEPT !.active = FALSE, !.start_time = None,
                    !.elapsed = 0, !.pomodoro_count = 0]
    ELSE ts

---------------------------------------------------------------------------
(* History of the advanced session, kept for stating the properties *)

NoSession == [runSecs |-> 0, pausedAt |-> None, everPaused |-> FALSE]

\* Seconds the session has spent Running up to `now`.
RunningSeconds(ts, ses, now) ==
    ses.runSecs + (IF ts.active THEN now - ts.start_time ELSE 0)

SessionAfter(ts, ses, click, now) ==
    CASE click = "start" /\ ~ts.active -> [ses EXCEPT !.pausedAt = None]
      [] click = "pause" /\ ts.active ->
            [runSecs |-> ses.runSecs + (now - ts.start_time),
             pausedAt |-> now, everPaused |-> TRUE]
      [] click = "stop" -> NoSession
      [] OTHER -> ses

NoEvent ==
    [click |-> "none", from |-> "Idle", fresh |-> FALSE, saved |-> FALSE, target |-> 0]

\* What the rerun met: the button pressed, the phase before it, whether the
\* session had run for no time at all and without a pause, whether the rerun
\* inserted a row, and the target_duration of the Pomodoro logic (0 when the
\* logic did not run).
EventOf(click, ts, ses, now, acts, acts2, work_minutes) ==
    [click |-> click, from |-> Phase(ts),
     fresh |-> ts.active /\ ~ses.everPaused /\ RunningSeconds(ts, ses, now) = 0,
     saved |-> acts2 # acts,
     target |-> IF ts.active THEN work_minutes ELSE 0]

---------------------------------------------------------------------------
(* Dashboard: get_streak_days *)

StreakQueryAllDays(acts, category) ==
    {acts[i].date.day : i \in {j \in 1..Len(acts) : acts[j].category = category}}

\* SELECT DISTINCT date(date) ... WHERE category = ? AND date >= date('now',
\* '-30 days'): the days of the category's rows inside the window.  The stored
\* text "YYYY-MM-DD HH:MM:SS" compares >= "YYYY-MM-DD" from that day on.
\* date('now') and date.today() are taken to name the same day.
StreakQuery(acts, category) ==
    {acts[i].date.day : i \in {j \in 1..Len(acts) :
        /\ acts[j].category = category
        /\ acts[j].date.day >= Today - WindowDays}}

MaxOf(S) == CHOOSE x \in S : \A y \in S : y <= x
MinOf(S) == CHOOSE x \in S : \A y \in S : x <= y

\* The days of S from day d down to day lo, latest first.
RECURSIVE Descending(_, _, _)
Descending(S, d, lo) ==
    IF d < lo THEN <<>>
    ELSE (IF d \in S THEN <<d>> ELSE <<>>) \o Descending(S, d - 1, lo)

\* ORDER BY day DESC
OrderDesc(S) ==
    IF S = {} THEN <<>> ELSE Descending(S, MaxOf(S), MinOf(S))

\* The for loop of get_streak_days from row i on.
RECURSIVE StreakLoop(_, _, _, _)
StreakLoop(days, i, current_date, count) ==
    IF i > Len(days) THEN count
    ELSE IF days[i] = current_date
         THEN StreakLoop(days, i + 1, current_date - 1, count + 1)
         ELSE count

get_streak_days(acts, category) ==
    LET days == OrderDesc(StreakQuery(acts, category))
    IN  IF days = <<>> THEN 0 ELSE StreakLoop(days, 1, Today, 0)

\* "Current Streaks": the streak of every category.
CurrentStreaks(acts) == [c \in Categories |-> get_streak_days(acts, c)]

---------------------------------------------------------------------------
(* Add Activity *)

\* Save Activity: the activities table after it.
SaveActivity(acts, clicked, category, duration, day, secs) ==
    IF clicked
    THEN Append(acts, Activity(category, "Manual entry", duration, Timestamp(day, secs)))
    ELSE acts

---------------------------------------------------------------------------
(* Goals & Progress *)

\* Save <category> Goals: the daily goal of the row after it.
SaveGoals(g, clicked, daily) == IF clicked THEN daily ELSE g

\* SELECT SUM(duration) FROM activities WHERE category=? AND date LIKE today%
RECURSIVE TodayTotal(_, _)
TodayTotal(acts, category) ==
    IF acts = <<>> THEN 0
    ELSE (IF Head(acts).category = category /\ Head(acts).date.day = Today
          THEN Head(acts).duration ELSE 0) + TodayTotal(Tail(acts), category)

\* Ratios are kept as numerator and denominator and compared by cross
\* multiplication (denominators are positive).
Ratio(n, d) == [num |-> n, den |-> d]
RatioLeq(a, b) == a.num * b.den <= b.num * a.den
RatioEq(a, b) == a.num * b.den = b.num * a.den
RatioMin(a, b) == IF RatioLeq(a, b) THEN a ELSE b

GoalProgressUncapped(total, goal) ==
    IF goal > 0 THEN Ratio(total, goal) ELSE Ratio(0, 1)

\* min(today_total / daily_goal, 1.0) if daily_goal > 0 else 0
GoalProgress(total, goal) ==
    IF goal > 0 THEN RatioMin(Ratio(total, goal), Ratio(1, 1)) ELSE Ratio(0, 1)

NoProgress == [shown |-> FALSE, today_total |-> 0, daily_progress |-> Ratio(0, 1),
               achieved |-> FALSE]

\* View Progress of the category: nothing without a goals row.
ViewProgress(acts, g) ==
    IF g = None THEN NoProgress
    ELSE LET today_total == TodayTotal(acts, GoalCategory)
             daily_progress == GoalProgress(today_total, g)
         IN  [shown |-> TRUE, today_total |-> today_total,
              daily_progress |-> daily_progress,
              achieved |-> RatioLeq(Ratio(1, 1), daily_progress)]

---------------------------------------------------------------------------
(* One execution of the script *)

\* The widget values of a rerun.
Inputs(minutes, work_minutes, add_category, add_duration, add_date, daily) ==
    [minutes |-> minutes, work_minutes |-> work_minutes,
     add_category |-> add_category, add_duration |-> add_duration,
     add_date |-> add_date, daily |-> daily]

DefaultInputs ==
    Inputs(MinQuickMinutes, 0, GoalCategory, 1, Today, 0)

\* The script from the dashboard on, given the sidebar's results.
Tabs(click, now, qt, acts, in) ==
    LET shown == TimerDisplay(advanced_timer, now, in.work_minutes > 0,
                              in.work_minutes, MinBreakMinutes)
        started == StartButton(shown, click = "start", now)
        paused == PauseButton(started, click = "pause", now)
        stopped == StopButton(paused, click = "stop")
        acts2 == StopInsert(acts, paused, click = "stop", now, GoalCategory)
        acts3 == SaveActivity(acts2, click = "save", in.add_category,
                              in.add_duration, in.add_date, now)
        goals2 == SaveGoals(goals, click = "goals", in.daily)
    IN  /\ streak' = CurrentStreaks(acts)
        /\ quick_timer' = qt
        /\ advanced_timer' = stopped
        /\ activities' = acts3
        /\ goals' = goals2
        /\ progress' = ViewProgress(acts3, goals2)

\* One execution of the script at the instant now, with the button click
\* pressed and the widget values in.
Script(click, now, in) ==
    LET qt1 == StartQuickSession(quick_timer, click = "quick", now, in.minutes)
        qt2 == ShowQuickTimer(qt1, click = "complete", now)
        acts1 == QuickInsert(activities, qt1, click = "complete", now, GoalCategory)
        award == check_achievements(acts1, achievements)
    IN  /\ clock' = now
        /\ achievements' = award.table
        /\ new_achievements' = award.achievements
        /\ session' = SessionAfter(advanced_timer, session, click, now)
           \* Complete Session ends in st.rerun(): the script runs again at once,
           \* with no button pressed.
        /\ Tabs(IF QuickCompletes(qt1, click = "complete", now) THEN "none" ELSE click,
                now, qt2, acts1, in)
        /\ event' = EventOf(click, advanced_timer, session, now, activities, activities',
                            in.work_minutes)

\* An execution of the script while the timers may still add a row.
Rerun(click, now, in) ==
    /\ click \in {"complete", "stop"} => Len(activities) < MaxRecords
    /\ Script(click, now, in)

\* Reruns within a short session, delta seconds after the latest one, the
\* Pomodoro box not ticked.

\* No button pressed: the page is rendered again.
Poll ==
    \E delta \in Deltas :
        /\ clock + delta <= MaxClock
        /\ Rerun("none", clock + delta, DefaultInputs)

\* Start Quick Session pressed.
PressStartQuick ==
    \E delta \in Deltas, minutes \in QuickMinutes :
        /\ clock + delta <= MaxClock
        /\ Rerun("quick", clock + delta, [DefaultInputs EXCEPT !.minutes = minutes])

\* Complete Session pressed.
PressComplete ==
    \E delta \in Deltas :
        /\ clock + delta <= MaxClock
        /\ Rerun("complete", clock + delta, DefaultInputs)

\* Start pressed.
PressStart ==
    \E delta \in Deltas :
        /\ clock + delta <= MaxClock
        /\ Rerun("start", clock + delta, DefaultInputs)

\* Pause pressed.
PressPause ==
    \E delta \in Deltas :
        /\ clock + delta <= MaxClock
        /\ Rerun("pause", clock + delta, DefaultInputs)

\* Stop & Save pressed.
PressStop ==
    \E delta \in Deltas :
        /\ clock + delta <= MaxClock
        /\ Rerun("stop", clock + delta, DefaultInputs)

\* Reruns within a long session of the advanced timer, with the Pomodoro
\* settings of the form.

\* No button pressed: the page is rendered again.
LongPoll ==
    \E delta \in LongDeltas, work_minutes \in PomodoroSettings :
        /\ clock + delta <= MaxLongClock
        /\ Rerun("none", clock + delta,
                 [DefaultInputs EXCEPT !.work_minutes = work_minutes])

\* Start pressed.
LongStart ==
    \E delta \in LongDeltas, work_minutes \in PomodoroSettings :
        /\ clock + delta <= MaxLongClock
        /\ Rerun("start", clock + delta,
                 [DefaultInputs EXCEPT !.work_minutes = work_minutes])

\* Pause pressed.
LongPause ==
    \E delta \in LongDeltas, work_minutes \in PomodoroSettings :
        /\ clock + delta <= MaxLongClock
        /\ Rerun("pause", clock + delta,
                 [DefaultInputs EXCEPT !.work_minutes = work_minutes])

\* Stop & Save pressed.
LongStop ==
    \E delta \in LongDeltas, work_minutes \in PomodoroSettings :
        /\ clock + delta <= MaxLongClock
        /\ Rerun("stop", clock + delta,
                 [DefaultInputs EXCEPT !.work_minutes = work_minutes])

\* Reruns within quick sessions followed to their end.

\* No button pressed: the page is rendered again.
QuickPoll ==
    \E delta \in QuickDeltas :
        /\ clock + delta <= MaxQuickClock
        /\ Script("none", clock + delta, DefaultInputs)

\* Start Quick Session pressed.
QuickStart ==
    \E delta \in QuickDeltas, minutes \in QuickChoices :
        /\ clock + delta <= MaxQuickClock
        /\ Script("quick", clock + delta, [DefaultInputs EXCEPT !.minutes = minutes])

\* Complete Session pressed.
QuickComplete ==
    \E delta \in QuickDeltas :
        /\ clock + delta <= MaxQuickClock
        /\ QuickCompletes(quick_timer, TRUE, clock + delta)
              => Len(activities) < MaxQuickRecords
        /\ Script("complete", clock + delta, DefaultInputs)

\* Rows entered through the Add Activity form so far.
ManualRows(acts) ==
    Cardinality({i \in 1..Len(acts) : acts[i].description = "Manual entry"})

\* Save Activity pressed, with a date and a category of the form.
PressSaveDated ==
    \E day \in ManualDays, category \in Categories :
        /\ ManualRows(activities) < MaxManual
        /\ Rerun("save", clock,
                 [DefaultInputs EXCEPT !.add_date = day, !.add_category = category,
                                       !.add_duration = 30])

\* Save Activity pressed, with a duration and a category of the form.
PressSaveTimed ==
    \E duration \in ManualDurations, category \in Categories,
       day \in {Today, Today - 1} :
        /\ ManualRows(activities) < MaxTimed
        /\ Rerun("save", clock,
                 [DefaultInputs EXCEPT !.add_date = day, !.add_category = category,
                                       !.add_duration = duration])

\* Save Activity pressed, with a duration of hours.
PressSaveLogged ==
    \E duration \in LoggedDurations :
        /\ ManualRows(activities) < MaxLogged
        /\ Rerun("save", clock, [DefaultInputs EXCEPT !.add_duration = duration])

\* Save Goals pressed for the category.
PressSaveGoals ==
    \E daily \in GoalChoices :
        /\ daily \in Nat
        /\ Rerun("goals", clock, [DefaultInputs EXCEPT !.daily = daily])

\* A rerun with no button pressed and no time passed.
Refresh ==
    /\ Rerun("none", clock, DefaultInputs)

InitWith(acts) ==
    /\ clock = 0
    /\ quick_timer = NoQuickTimer
    /\ advanced_timer = IdleTimer
    /\ activities = acts
    /\ goals = None
    /\ event = NoEvent
    /\ session = NoSession
    /\ streak = [c \in Categories |-> 0]
    /\ progress = NoProgress
    /\ achievements = <<>>
    /\ new_achievements = <<>>

Init == InitWith(<<>>)

Next ==
    \/ Poll
    \/ PressStartQuick
    \/ PressComplete
    \/ PressStart
    \/ PressPause
    \/ PressStop

Spec == Init /\ [][Next]_vars

NextLong ==
    \/ LongPoll
    \/ LongStart
    \/ LongPause
    \/ LongStop

SpecLong == Init /\ [][NextLong]_vars

\* The table left by earlier use: one row of the category on each of the k
\* days up to today.
History(k) ==
    [i \in 1..k |-> Activity(GoalCategory, "Earlier entry", 30,
                             Timestamp(Today - (i - 1), 0))]

InitStreak == \E k \in 0..MaxRun : InitWith(History(k))

NextStreak ==
    \/ PressSaveDated
    \/ Refresh

SpecStreak == InitStreak /\ [][NextStreak]_vars

NextGoal ==
    \/ PressSaveTimed
    \/ PressSaveGoals

SpecGoal == Init /\ [][NextGoal]_vars

NextQuick ==
    \/ QuickPoll
    \/ QuickStart
    \/ QuickComplete

SpecQuick == Init /\ [][NextQuick]_vars

NextAchieve ==
    \/ PressSaveLogged
    \/ Refresh

SpecAchieve == Init /\ [][NextAchieve]_vars

---------------------------------------------------------------------------
(* Properties of the advanced timer and the quick timer *)

C2_DurationIsRunningTime ==
    [][(event'.click = "stop" /\ Phase(advanced_timer) # "Idle")
        => TotalDuration(advanced_timer, clock')
             = RunningSeconds(advanced_timer, session, clock') \div SecondsPerMinute]_vars

\* C3: Stop pressed right after Start, with zero elapsed time and no pause,
\* persists no row and leaves the timer Idle with elapsed 0 and no start time.
C3_ImmediateStopDiscards ==
    [][(event'.click = "stop" /\ event'.fresh) =>
        /\ activities' = activities
        /\ ~advanced_timer'.active
        /\ advanced_timer'.start_time = None
        /\ advanced_timer'.elapsed = 0]_vars

\* C3 witness: such a Stop has happened.
C3_Witness ==
    /\ event.click = "stop"
    /\ event.fresh
    /\ ~event.saved
    /\ Phase(advanced_timer) = "Idle"

\* C4: no row written by a timer has duration <= 0.
C4_NoNonPositiveDuration ==
    \A i \in 1..Len(activities) : activities[i].duration > 0

\* C5: a row emitted by Stop pressed while Paused carries the instant the
\* pause began as its timestamp.
C5_StopWhilePausedStampsPause ==
    [][(event'.click = "stop" /\ Phase(advanced_timer) = "Paused" /\ event'.saved)
        => activities'[Len(activities')].date = Timestamp(Today, session.pausedAt)]_vars

\* C6: the quick timer and the advanced timer are never both active.
C6_SingleActiveTimer == ~(quick_timer.active /\ advanced_timer.active)

\* C9: a rerun with no button pressed leaves the advanced timer state (start
\* time, accumulated minutes, active, is_break, pomodoro_count) unchanged,
\* with or without the Pomodoro option; only Start, Pause and Stop change it.
C9_PollingChangesNothing ==
    [][advanced_timer' # advanced_timer
        => event'.click \in {"start", "pause", "stop"}]_vars

\* C9 witness: a running session was polled with the Pomodoro option when
\* its elapsed minutes had reached the work duration.
C9_Witness ==
    /\ event.click = "none"
    /\ event.target > 0
    /\ advanced_timer.active
    /\ TotalElapsed(advanced_timer, clock) >= event.target

\* C10: Pause pressed while Idle or Paused, and Stop pressed while Idle,
\* leave the advanced timer state unchanged and persist no row.
C10_ForbiddenCommandsChangeNothing ==
    [][(\/ event'.click = "pause" /\ Phase(advanced_timer) \in {"Idle", "Paused"}
        \/ event'.click = "stop" /\ Phase(advanced_timer) = "Idle")
        => advanced_timer' = advanced_timer /\ activities' = activities]_vars

\* C10 witness: Pause was pressed a second time, on a paused session that
\* had accumulated minutes.
C10_Witness ==
    /\ event.click = "pause"
    /\ event.from = "Paused"
    /\ advanced_timer.elapsed > 0
    /\ advanced_timer.start_time < clock

---------------------------------------------------------------------------
(* Properties of the streak and of the goal progress *)

\* Every day on which the category has a row.
ActivityDays(acts, category) ==
    {acts[i].date.day : i \in {j \in 1..Len(acts) : acts[j].category = category}}

\* The k for which days today, today-1, ..., today-(k-1) are all in D and
\* day today-k is not, counted from k on.
RECURSIVE ConsecutiveDays(_, _)
ConsecutiveDays(D, k) ==
    IF (Today - k) \in D THEN ConsecutiveDays(D, k + 1) ELSE k

\* C7: the streak the dashboard shows for a category is the number k of
\* consecutive days up to and including today on which the category has
\* activity, whatever other days carry activity.
C7_StreakIsConsecutiveDays ==
    [][\A c \in Categories :
         streak'[c] = ConsecutiveDays(ActivityDays(activities, c), 0)]_vars

\* C8: the daily progress is min(total/goal, 1) when goal > 0 and 0 when
\* goal = 0; it lies in [0, 1], its denominator is never zero, and the goal
\* counts as achieved exactly when goal > 0 and total >= goal.
C8_GoalProgress ==
    progress.shown =>
        LET t == progress.today_total
            g == goals
            p == progress.daily_progress
        IN  /\ p.den > 0
            /\ RatioLeq(Ratio(0, 1), p) /\ RatioLeq(p, Ratio(1, 1))
            /\ g = 0 => RatioEq(p, Ratio(0, 1))
            /\ g > 0 => RatioEq(p, IF t <= g THEN Ratio(t, g) ELSE Ratio(1, 1))
            /\ progress.achieved <=> (g > 0 /\ t >= g)
            /\ (t = 45 /\ g = 60) => RatioEq(p, Ratio(3, 4))
            /\ (t = 90 /\ g = 60) => RatioEq(p, Ratio(1, 1))
            /\ (t = 10 /\ g = 0) => RatioEq(p, Ratio(0, 1))

\* C8 witness: 90 minutes logged today against a daily goal of 60: the
\* progress is capped and the goal reported as achieved.
C8_Witness ==
    /\ progress.shown
    /\ goals = 60
    /\ progress.today_total = 90
    /\ progress.achieved

---------------------------------------------------------------------------
(* Properties of ending a session, of the quick timer and of the achievements *)

\* C11: from Running and from Paused a command (cancel) is available that
\* always succeeds, resets the timer to Idle and persists no row.
C11_CancelAvailable ==
    (Phase(advanced_timer) # "Idle" /\ Len(activities) < MaxRecords)
        => ENABLED (Next /\ advanced_timer' = IdleTimer /\ activities' = activities)

\* C12: saving a row dated later than today changes no category's streak.
C12_FutureRowKeepsStreak ==
    [][(/\ Len(activities') = Len(activities) + 1
        /\ activities'[Len(activities')].date.day > Today)
        => \A c \in Categories :
             get_streak_days(activities', c) = get_streak_days(activities, c)]_vars

QuickRows(acts) ==
    Cardinality({i \in 1..Len(acts) : acts[i].description = "Quick session"})

\* C14: a rerun inserts at most one quick row, and only when Complete Session
\* is pressed on an active session whose whole minutes are below its duration,
\* which the rerun deactivates; an active session whose duration has elapsed is
\* deactivated by the next rerun without a row; a deactivated session stays so
\* and inserts nothing until Start Quick Session is pressed again.
C14_QuickSessionPersistsOnce ==
    [][/\ QuickRows(activities') <= QuickRows(activities) + 1
       /\ QuickRows(activities') = QuickRows(activities) + 1
            => /\ event'.click = "complete"
               /\ quick_timer.active
               /\ WholeMinutes(quick_timer.start, clock') < quick_timer.duration
               /\ quick_timer' = [quick_timer EXCEPT !.active = FALSE]
       /\ (/\ quick_timer.active
           /\ event'.click # "quick"
           /\ WholeMinutes(quick_timer.start, clock') >= quick_timer.duration)
            => /\ quick_timer' = [quick_timer EXCEPT !.active = FALSE]
               /\ QuickRows(activities') = QuickRows(activities)
       /\ (~quick_timer.active /\ event'.click # "quick")
            => /\ quick_timer' = quick_timer
               /\ QuickRows(activities') = QuickRows(activities)]_vars

\* C14 witness: an earlier session was completed with a row, a later one ran
\* until its duration had elapsed, and Complete Session was pressed after that:
\* the table still holds the one row.
C14_Witness ==
    /\ QuickRows(activities) = 1
    /\ activities[1].date.secs < quick_timer.start
    /\ ~quick_timer.active
    /\ WholeMinutes(quick_timer.start, clock) >= quick_timer.duration
    /\ event.click = "complete"
    /\ ~event.saved

\* The activities table check_achievements read in the step: the table after
\* the quick timer's insert, if there was one.
SeenBySidebar ==
    IF QuickRows(activities') > QuickRows(activities) THEN activities' ELSE activities

\* The milestone of a title.
MilestoneOf(title) ==
    hour_milestones[CHOOSE i \in 1..Len(hour_milestones) :
                        hour_milestones[i].title = title].milestone

\* C15: every step keeps the rows of the achievements table and appends
\* exactly the titles check_achievements returned; the table after the step
\* holds milestone titles only, each at most once; and every title returned
\* had its milestone reached by the total logged duration read in the step.
C15_AchievementsAwardedOnce ==
    [][/\ achievements' = achievements \o new_achievements'
       /\ \A i, j \in 1..Len(achievements') :
            achievements'[i] = achievements'[j] => i = j
       /\ \A i \in 1..Len(achievements') :
            \E k \in 1..Len(hour_milestones) :
                achievements'[i] = hour_milestones[k].title
       /\ \A i \in 1..Len(new_achievements') :
            SumDuration(SeenBySidebar)
                >= MilestoneOf(new_achievements'[i]) * MinutesPerHour]_vars

\* C15 witness: two milestones were awarded in earlier renders, the total has
\* since passed them again and by far, and the latest render reported nothing.
C15_Witness ==
    /\ achievements = <<"First Steps", "Getting Serious">>
    /\ new_achievements = <<>>
    /\ Len(activities) = MaxLogged
    /\ SumDuration(activities) >= 2 * 50 * MinutesPerHour

===========================================================================
